---- MODULE Spec2Model ----
(***************************************************************************)
(* Reminder bot: the two versions of the program kept in the repository,   *)
(* bot.py (single file) and g.py (the DAO refactoring).  `variant' selects *)
(* the version a behaviour runs; every other variable is the state both    *)
(* versions share: the two SQLite tables, the wall clock, the scanner task *)
(* check_reminders and the command handlers that are suspended at an       *)
(* await.                                                                  *)
(*                                                                         *)
(* Time is counted in seconds from 15.10.2024 00:00:00 UTC.  A string is a *)
(* sequence of atoms; the atom " " is the single space str.split splits    *)
(* on, every other atom is a word without a space in it.                   *)
(***************************************************************************)
EXTENDS Integers, Sequences, FiniteSets, TLC

\* ------------------------------------------------------------------ bounds
MaxBody      == 6   \* atoms after the command word of a message
MaxReminders == 1   \* reminders created in one behaviour
MaxRestarts  == 1   \* process restarts in one behaviour
MaxFailures  == 1   \* failed transport / store calls in one behaviour

\* -------------------------------------------------------------- constants
SecPerMin  == 60
PollPeriod == 60

SP     == " "
\* Python's None where a string is expected, and where a row of users is.
NoName == "None"
NoRow  == [username |-> NoName, timezone |-> <<>>]

UserIds == {1, 2}
\* The handler tasks, and those that take commands under Spec: there the
\* commands are served one after the other, each interleaved with the
\* scanner at its awaits.
Tasks   == {1, 2}
Serving == {1}

\* message.from_user.first_name: always present.
FirstName(u) == IF u = 1 THEN "ann" ELSE "bob"
\* message.from_user.username: optional in Telegram; user 2 has none.
Username(u) == IF u = 1 THEN "ann" ELSE NoName

\* The instants the wall clock is observed at, in increasing order:
\* 12:30:00, 15:30:00, 15:30:30 and 15:31:30 of 15.10.2024.
ClockValues == <<45000, 55800, 55830, 55890>>

\* ----------------------------------------------------------- TimeResolver
\* pytz.all_timezones, cut down to two zones.
all_timezones == {<<"Europe/Moscow">>, <<"UTC">>}

\* UTC offset of a zone, in seconds (neither zone has DST in 2024).
UtcOffset(tz) == IF tz = <<"Europe/Moscow">> THEN 10800 ELSE 0

\* datetime.replace(second=0, microsecond=0)
TruncMin(t) == (t \div SecPerMin) * SecPerMin

\* datetime.strptime(s, "%d.%m.%Y").date(): seconds of the day's midnight,
\* -1 for the ValueError of an unparsable string.
ParseDate(s) == IF s = <<"15.10.2024">> THEN 0 ELSE -1

\* datetime.strptime(s, "%H:%M").time(): seconds into the day, -1
\* for the ValueError of an unparsable string.
ParseTime(s) == IF s = <<"18:30">> THEN 66600 ELSE -1

\* Variant of ToUtc that takes the wall-clock value for UTC, to see that C15
\* depends on the conversion.
ToUtcAsIs(dt, tz) == dt

\* local_tz.localize(dt).astimezone(pytz.utc): the wall-clock value dt read
\* in zone tz, as an instant.
ToUtc(dt, tz) == dt - UtcOffset(tz)

\* ------------------------------------------------------------- str.split
RECURSIVE FirstSpace(_, _)
FirstSpace(s, i) ==
    IF i > Len(s) THEN 0
    ELSE IF s[i] = SP THEN i
    ELSE FirstSpace(s, i + 1)

\* s.split(" ", n)
RECURSIVE Split(_, _)
Split(s, n) ==
    LET i == FirstSpace(s, 1) IN
    IF n = 0 \/ i = 0 THEN <<s>>
    ELSE <<SubSeq(s, 1, i - 1)>> \o Split(SubSeq(s, i + 1, Len(s)), n - 1)

\* ---------------------------------------------------------------- messages
\* Every string of at most n atoms over the alphabet A.
StringsUpTo(A, n) == UNION {[1..k -> A] : k \in 0..n}

\* The text after the command word, as the dispatcher routes it to a
\* handler: nothing, or a space followed by anything.
Bodies(A) == {b \in StringsUpTo(A, MaxBody) : b = <<>> \/ b[1] = SP}

ReminderAtoms == {SP, "15.10.2024", "18:30"}
TimezoneAtoms == {SP, "Europe/Moscow", "UTC"}

\* message.text of the /set_reminder and /set_timezone commands.
ReminderMessages == {<<"/set_reminder">> \o b : b \in Bodies(ReminderAtoms)}
TimezoneMessages == {<<"/set_timezone">> \o b : b \in Bodies(TimezoneAtoms)}

\* What the synchronous head of a handler leaves behind: the exception it
\* raised ("none" when it did not), the reply the except clause sends for
\* it, and the parsed arguments.
Parsed(exc, reply, dt, text) ==
    [exc |-> exc, reply |-> reply, dt |-> dt, text |-> text]

\* bot.py set_reminder, from the split to the empty-text test.  The length
\* test admits three fields, so args[3] raises IndexError on a message
\* without a text.
parse_reminder_bot(m) ==
    LET args == Split(m, 3) IN
    IF Len(args) < 3 THEN Parsed("ValueError", "usage", 0, <<>>)
    ELSE IF ParseDate(args[2]) < 0 \/ ParseTime(args[3]) < 0
         THEN Parsed("ValueError", "strptime", 0, <<>>)
    ELSE IF Len(args) < 4 THEN Parsed("IndexError", "IndexError", 0, <<>>)
    ELSE IF args[4] = <<>> THEN Parsed("ValueError", "empty_text", 0, <<>>)
    ELSE Parsed("none", "none", ParseDate(args[2]) + ParseTime(args[3]), args[4])

\* g.py set_reminder, from the split to reminder_text = args[3]: four
\* fields are required and the text is taken as it is.
parse_reminder_g(m) ==
    LET args == Split(m, 3) IN
    IF Len(args) < 4 THEN Parsed("ValueError", "usage", 0, <<>>)
    ELSE IF ParseDate(args[2]) < 0 \/ ParseTime(args[3]) < 0
         THEN Parsed("ValueError", "strptime", 0, <<>>)
    ELSE Parsed("none", "none", ParseDate(args[2]) + ParseTime(args[3]), args[4])

\* Variant of parse_timezone without the membership test, to see that C12
\* depends on it.
parse_timezone_unchecked(m) ==
    LET args == Split(m, 1) IN
    IF Len(args) < 2 THEN Parsed("ValueError", "tz_usage", 0, <<>>)
    ELSE Parsed("none", "none", 0, args[2])

\* set_timezone, from the split to the membership test in
\* pytz.all_timezones (validate_timezone in g.py); the same in both files.
parse_timezone(m) ==
    LET args == Split(m, 1) IN
    IF Len(args) < 2 THEN Parsed("ValueError", "tz_usage", 0, <<>>)
    ELSE IF args[2] \notin all_timezones
         THEN Parsed("ValueError", "bad_timezone", 0, <<>>)
    ELSE Parsed("none", "none", 0, args[2])

\* An argument string of /set_reminder lacks its date, its time or its
\* text, or has an empty one.
ArgsIncomplete(m) ==
    LET args == Split(m, 3) IN
    \/ Len(args) < 4
    \/ \E i \in 2..4 : args[i] = <<>>

\* The inputs of set_reminder: for every message, what the handler's head
\* makes of it, with the class of the message.
ReminderInputsBot ==
    {[p |-> parse_reminder_bot(m), incomplete |-> ArgsIncomplete(m)] :
        m \in ReminderMessages}
ReminderInputsG ==
    {[p |-> parse_reminder_g(m), incomplete |-> ArgsIncomplete(m)] :
        m \in ReminderMessages}
TimezoneInputs    == {parse_timezone(m) : m \in TimezoneMessages}

\* ------------------------------------------------------------------- state
VARIABLES
    variant,      \* "bot" or "g": the version of the program that runs
    DEFAULT_TZ,   \* os.getenv("TZ", "Europe/Moscow")
    hostOffset,   \* UTC offset of the host's local time zone, in seconds
    clock,        \* index in ClockValues of the current wall-clock instant
    users,        \* table users: user_id -> row, NoRow where there is none
    reminders,    \* table reminders: a set of rows
    task,         \* the command handlers, each at rest or at an await
    out,          \* how the handler that returned in the last step ended
    scanPc,       \* check_reminders: where the task stands
    scanNow,      \* check_reminders: now_utc of the cycle
    scanList,     \* check_reminders: the rows fetched by the cycle
    scanIdx,      \* check_reminders: position of the for loop in scanList
    fetchKeys,    \* history: the reminders in the table when the cycle fetched
    sent,         \* the notification the last step delivered, if any
    created,      \* history: number of reminders set_reminder has stored
    sentCount,    \* history: completed sends, per reminder
    failures,     \* history: failed transport and store calls so far
    restarts      \* history: process restarts so far

env   == <<variant, DEFAULT_TZ, hostOffset>>
store == <<users, reminders>>
scan  == <<scanPc, scanNow, scanList, scanIdx, fetchKeys>>
hist  == <<created, sentCount>>
vars  == <<variant, DEFAULT_TZ, hostOffset, clock, users, reminders, task, out,
           scanPc, scanNow, scanList, scanIdx, fetchKeys, sent, created,
           sentCount, failures, restarts>>

\* datetime.now(pytz.utc)
Now == ClockValues[clock]

\* A row of users and a row of reminders.  key is not a column: it numbers
\* the reminders by creation, since SQLite hands the reminder_id of a
\* deleted last row out again.
UserRow(username, timezone) == [username |-> username, timezone |-> timezone]
ReminderRow(id, uid, text, time, key) ==
    [reminder_id |-> id, user_id |-> uid, reminder_text |-> text,
     reminder_time |-> time, key |-> key]

\* A handler at rest.
IdleTask ==
    [pc |-> "idle", uid |-> 0, user |-> NoRow, arg |-> <<>>, dt |-> 0,
     incomplete |-> FALSE]

\* No handler returned in the last step.
NoOut == [reply |-> "none", incomplete |-> FALSE]

\* No notification was delivered in the last step.
NoSent == [key |-> 0, to |-> 0, name |-> NoName, text |-> <<>>]

\* A handler returns: after the reply it sent, or with the exception
\* nothing caught, named in place of the reply.  incomplete tells whether
\* the /set_reminder message it served lacked an argument.
Return(reply, incomplete) == [reply |-> reply, incomplete |-> incomplete]

\* The exceptions no handler catches.
Unhandled == {"IndexError", "IntegrityError", "UnknownTimeZoneError"}

\* The values os.getenv("TZ", ...) is given in the runs considered.
DefaultTzValues == {<<"Europe/Moscow">>, <<"UTC">>, <<"Mars/Phobos">>}

\* The hosts considered keep local time in UTC or in Moscow time.
HostOffsets == {0, 10800}

\* After init_db() on an empty database and create_task(check_reminders()).
Init ==
    /\ variant \in {"bot", "g"}
    /\ DEFAULT_TZ \in DefaultTzValues
    /\ hostOffset \in HostOffsets
    /\ clock = 1
    /\ users = [u \in UserIds |-> NoRow]
    /\ reminders = {}
    /\ task = [t \in Tasks |-> IdleTask]
    /\ out = NoOut
    /\ scanPc = "top"
    /\ scanNow = 0
    /\ scanList = <<>>
    /\ scanIdx = 1
    /\ fetchKeys = {}
    /\ sent = NoSent
    /\ created = 0
    /\ sentCount = [k \in 1..MaxReminders |-> 0]
    /\ failures = 0
    /\ restarts = 0

\* Time passes.
Tick ==
    /\ \E c \in (clock + 1)..Len(ClockValues) : clock' = c
    /\ out' = NoOut
    /\ sent' = NoSent
    /\ UNCHANGED <<env, store, task, scan, hist, failures, restarts>>

\* A handler that can take the next command.
Free(t) == task[t].pc = "idle"

\* --------------------------------------------------------------- /start
\* Variant of InsertUserFails for an INSERT that replaces the row of a key
\* already there, to see that C19 depends on the primary key.
InsertUserReplaces(uid, username) == username = NoName

\* INSERT INTO users: the primary key and the NOT NULL username decide.
InsertUserFails(uid, username) == users[uid] # NoRow \/ username = NoName

\* The timezone start_handler gives a new user.
StartTimezone == IF variant = "bot" THEN <<"Europe/Moscow">> ELSE DEFAULT_TZ

\* start_handler up to the end of its SELECT; a known user gets the
\* greeting without a write.
StartSelect(t, u) ==
    /\ Free(t)
    /\ IF users[u] # NoRow
       THEN /\ out' = Return("greeting", FALSE)
            /\ UNCHANGED task
       ELSE /\ task' = [task EXCEPT ![t] = [IdleTask EXCEPT !.pc = "start_commit",
                                                           !.uid = u]]
            /\ out' = NoOut
    /\ sent' = NoSent
    /\ UNCHANGED <<env, clock, store, scan, hist, failures, restarts>>

\* start_handler: session.add(new_user); await session.commit(); reply.
StartCommit(t) ==
    /\ task[t].pc = "start_commit"
    /\ LET u == task[t].uid IN
       IF InsertUserFails(u, FirstName(u))
       THEN /\ out' = Return("IntegrityError", FALSE)
            /\ UNCHANGED users
       ELSE /\ users' = [users EXCEPT ![u] = UserRow(FirstName(u), StartTimezone)]
            /\ out' = Return("greeting", FALSE)
    /\ task' = [task EXCEPT ![t] = IdleTask]
    /\ sent' = NoSent
    /\ UNCHANGED <<env, clock, reminders, scan, hist, failures, restarts>>

\* ---------------------------------------------------------- /set_timezone
\* set_timezone up to the end of its SELECT; a ValueError of the head is
\* answered with its text.
TimezoneSelect(t, u) ==
    /\ Free(t)
    /\ \E p \in TimezoneInputs :
         IF p.exc # "none"
         THEN /\ out' = Return(p.reply, FALSE)
              /\ UNCHANGED task
         ELSE /\ task' = [task EXCEPT ![t] =
                            [IdleTask EXCEPT !.pc = "tz_commit", !.uid = u,
                                             !.user = users[u], !.arg = p.text]]
              /\ out' = NoOut
    /\ sent' = NoSent
    /\ UNCHANGED <<env, clock, store, scan, hist, failures, restarts>>

\* set_timezone: UPDATE of the row found, or INSERT of a new one; commit;
\* reply.
TimezoneCommit(t) ==
    /\ task[t].pc = "tz_commit"
    /\ LET u == task[t].uid
           tz == task[t].arg IN
       IF task[t].user # NoRow
       THEN /\ users' = [users EXCEPT ![u] =
                           IF @ = NoRow THEN @ ELSE [@ EXCEPT !.timezone = tz]]
            /\ out' = Return("tz_set", FALSE)
       ELSE IF InsertUserFails(u, Username(u))
       THEN /\ out' = Return("IntegrityError", FALSE)
            /\ UNCHANGED users
       ELSE /\ users' = [users EXCEPT ![u] = UserRow(Username(u), tz)]
            /\ out' = Return("tz_set", FALSE)
    /\ task' = [task EXCEPT ![t] = IdleTask]
    /\ sent' = NoSent
    /\ UNCHANGED <<env, clock, reminders, scan, hist, failures, restarts>>

\* ---------------------------------------------------------- /set_reminder
\* The inputs of the version that runs.
ReminderInputsOf(v) == IF v = "bot" THEN ReminderInputsBot ELSE ReminderInputsG

\* Handlers that are about to store a reminder.
Storing == {t \in Tasks : task[t].pc = "rem_commit"}

\* set_reminder up to the end of its SELECT; a ValueError of the head is
\* answered with its text, any other exception leaves the handler.
ReminderSelect(t, u) ==
    /\ Free(t)
    /\ created + Cardinality(Storing) < MaxReminders
    /\ \E in \in ReminderInputsOf(variant) :
         IF in.p.exc # "none"
         THEN /\ out' = Return(in.p.reply, in.incomplete)
              /\ UNCHANGED task
         ELSE /\ task' = [task EXCEPT ![t] =
                            [pc |-> "rem_commit", uid |-> u, user |-> users[u],
                             arg |-> in.p.text, dt |-> in.p.dt,
                             incomplete |-> in.incomplete]]
              /\ out' = NoOut
    /\ sent' = NoSent
    /\ UNCHANGED <<env, clock, store, scan, hist, failures, restarts>>

\* user.timezone if user else DEFAULT_TZ
ReminderTimezone(user) == IF user # NoRow THEN user.timezone ELSE DEFAULT_TZ

\* Variants of the comparison below, to see that C7 and C8 depend on it.
IsPastLax(utc, now) == utc + SecPerMin < now
IsPastOrNow(utc, now) == utc <= now

\* if reminder_time_utc < now_utc: raise ValueError
IsPast(utc, now) == utc < now

\* The DateTime column of SQLite keeps year..second of the value it is
\* given and no zone: of the aware UTC datetime, its UTC wall-clock value.
ToColumn(utc) == utc

\* reminder_id of the next INSERT: one more than the largest in the table.
NextReminderId ==
    IF reminders = {} THEN 1
    ELSE 1 + (CHOOSE i \in {r.reminder_id : r \in reminders} :
                  \A r \in reminders : r.reminder_id <= i)

\* set_reminder after the SELECT: resolve the zone, convert, compare with
\* now, INSERT and commit, reply.
ReminderCommit(t) ==
    /\ task[t].pc = "rem_commit"
    /\ LET u   == task[t].uid
           tz  == ReminderTimezone(task[t].user)
           utc == ToUtc(task[t].dt, tz)
           now == TruncMin(Now)
           key == created + 1
           inc == task[t].incomplete IN
       IF tz \notin all_timezones
       THEN /\ out' = Return("UnknownTimeZoneError", inc)
            /\ UNCHANGED <<reminders, created>>
       ELSE IF IsPast(utc, now)
       THEN /\ out' = Return("past", inc)
            /\ UNCHANGED <<reminders, created>>
       ELSE /\ reminders' = reminders \cup
                   {ReminderRow(NextReminderId, u, task[t].arg, ToColumn(utc), key)}
            /\ created' = key
            /\ out' = Return("confirm", inc)
    /\ task' = [task EXCEPT ![t] = IdleTask]
    /\ sent' = NoSent
    /\ UNCHANGED <<env, clock, users, scan, sentCount, failures, restarts>>

\* ------------------------------------------------------- check_reminders
\* Variant of Joined that fetches every reminder, to see that C17 depends on
\* the join.
JoinedAll == reminders

\* select(Reminder).join(User): the reminders whose user_id has a row in
\* users.
Joined == {r \in reminders : users[r.user_id] # NoRow}

\* result.scalars().all(): the rows in the order of their reminder_id.
RECURSIVE InIdOrder(_)
InIdOrder(rs) ==
    IF rs = {} THEN <<>>
    ELSE LET first == CHOOSE r \in rs : \A x \in rs : r.reminder_id <= x.reminder_id
         IN <<first>> \o InIdOrder(rs \ {first})

\* A datetime read back from the column is naive, and astimezone() takes a
\* naive datetime to be in the host's local time.
NaiveAsInstant(v) == v - hostOffset

\* Variant of DueCheck that compares the local wall-clock value with the
\* UTC one, to see that C11 depends on both sides being in one zone.
DueCheckMixed(reminder_time, tz, now_utc) ==
    TruncMin(NaiveAsInstant(reminder_time) + UtcOffset(tz)) <= now_utc

\* reminder.reminder_time.astimezone(user_tz).replace(second=0,
\* microsecond=0) <= now_utc.astimezone(user_tz), both sides as wall-clock
\* values of user_tz.
DueCheck(reminder_time, tz, now_utc) ==
    TruncMin(NaiveAsInstant(reminder_time) + UtcOffset(tz)) <= now_utc + UtcOffset(tz)

\* Variant of AfterSend that goes on to the delete whatever the send did, to
\* see that C3 depends on the order of send and delete.
AfterSendDeletes(ok) == "delete"

\* Where the task goes from bot.send_message: on to the delete, or out of
\* the loop with the exception.
AfterSend(ok) == IF ok THEN "delete" ELSE "terminated"

\* Variant of DeleteRow that leaves the row in the table, to see that C6
\* depends on the delete.
DeleteRowKeeps(rs, r) == rs

\* session.delete(reminder): DELETE ... WHERE reminder_id = ?
DeleteRow(rs, r) == {x \in rs : x.reminder_id # r.reminder_id}

\* A transport or store call may fail, MaxFailures times in a behaviour.
MayFail == failures < MaxFailures

\* Top of the while loop: now_utc and the SELECT of the cycle.
ScanFetch ==
    /\ scanPc = "top"
    /\ \/ /\ scanPc' = "loop"
          /\ scanNow' = TruncMin(Now)
          /\ scanList' = InIdOrder(Joined)
          /\ scanIdx' = 1
          /\ fetchKeys' = {r.key : r \in reminders}
          /\ UNCHANGED failures
       \/ /\ MayFail
          /\ scanPc' = "terminated"
          /\ failures' = failures + 1
          /\ UNCHANGED <<scanNow, scanList, scanIdx, fetchKeys>>
    /\ out' = NoOut
    /\ sent' = NoSent
    /\ UNCHANGED <<env, clock, store, task, hist, restarts>>

\* One pass of the for loop up to the end of bot.send_message.
ScanSend ==
    /\ scanPc = "loop"
    /\ scanIdx <= Len(scanList)
    /\ LET r    == scanList[scanIdx]
           user == users[r.user_id] IN
       IF user = NoRow \/ user.timezone \notin all_timezones
       THEN /\ scanPc' = "terminated"
            /\ sent' = NoSent
            /\ UNCHANGED <<scanIdx, sentCount, failures>>
       ELSE IF ~DueCheck(r.reminder_time, user.timezone, scanNow)
       THEN /\ scanIdx' = scanIdx + 1
            /\ sent' = NoSent
            /\ UNCHANGED <<scanPc, sentCount, failures>>
       ELSE \/ /\ scanPc' = AfterSend(TRUE)
               /\ sentCount' = [sentCount EXCEPT ![r.key] = @ + 1]
               /\ sent' = [key |-> r.key, to |-> r.user_id,
                           name |-> user.username, text |-> r.reminder_text]
               /\ UNCHANGED <<scanIdx, failures>>
            \/ /\ MayFail
               /\ scanPc' = AfterSend(FALSE)
               /\ failures' = failures + 1
               /\ sent' = NoSent
               /\ UNCHANGED <<scanIdx, sentCount>>
    /\ out' = NoOut
    /\ UNCHANGED <<env, clock, store, task, scanNow, scanList, fetchKeys,
                   created, restarts>>

\* ReminderDAO.delete_reminder / session.delete and commit for the reminder
\* just sent.
ScanDelete ==
    /\ scanPc = "delete"
    /\ \/ /\ reminders' = DeleteRow(reminders, scanList[scanIdx])
          /\ scanPc' = "loop"
          /\ scanIdx' = scanIdx + 1
          /\ UNCHANGED failures
       \/ /\ MayFail
          /\ scanPc' = "terminated"
          /\ failures' = failures + 1
          /\ UNCHANGED <<reminders, scanIdx>>
    /\ out' = NoOut
    /\ sent' = NoSent
    /\ UNCHANGED <<env, clock, users, task, scanNow, scanList, fetchKeys, hist,
                   restarts>>

\* The for loop is through: the session closes, asyncio.sleep(60) begins.
ScanSleep ==
    /\ scanPc = "loop"
    /\ scanIdx > Len(scanList)
    /\ scanPc' = "sleep"
    /\ out' = NoOut
    /\ sent' = NoSent
    /\ UNCHANGED <<env, clock, store, task, scanNow, scanList, scanIdx,
                   fetchKeys, hist, failures, restarts>>

\* asyncio.sleep(60) returns: at least the poll period has passed.
ScanWake ==
    /\ scanPc = "sleep"
    /\ \E c \in (clock + 1)..Len(ClockValues) :
         /\ ClockValues[c] >= Now + PollPeriod
         /\ clock' = c
    /\ scanPc' = "top"
    /\ out' = NoOut
    /\ sent' = NoSent
    /\ UNCHANGED <<env, store, task, scanNow, scanList, scanIdx, fetchKeys,
                   hist, failures, restarts>>

\* The process is stopped and started again: the database file stays, the
\* tasks are gone and check_reminders starts anew.
Restart ==
    /\ restarts < MaxRestarts
    /\ restarts' = restarts + 1
    /\ task' = [t \in Tasks |-> IdleTask]
    /\ out' = NoOut
    /\ sent' = NoSent
    /\ scanPc' = "top"
    /\ scanNow' = 0
    /\ scanList' = <<>>
    /\ scanIdx' = 1
    /\ fetchKeys' = {}
    /\ UNCHANGED <<env, clock, store, hist, failures>>

Next ==
    \/ Tick
    \/ \E t \in Serving, u \in UserIds : StartSelect(t, u)
    \/ \E t \in Serving : StartCommit(t)
    \/ \E t \in Serving, u \in UserIds : TimezoneSelect(t, u)
    \/ \E t \in Serving : TimezoneCommit(t)
    \/ \E t \in Serving, u \in UserIds : ReminderSelect(t, u)
    \/ \E t \in Serving : ReminderCommit(t)
    \/ ScanFetch
    \/ ScanSend
    \/ ScanDelete
    \/ ScanSleep
    \/ ScanWake
    \/ Restart

Spec == Init /\ [][Next]_vars

\* ------------------------------------------------------------------ claims
\* dueAt of a row: the column holds the UTC wall-clock value of the instant.
DueAt(r) == r.reminder_time

\* The row of reminder k is in the table.
InStore(k) == \E r \in reminders : r.key = k

\* This step is bot.send_message raising in check_reminders.
SendFails == scanPc = "loop" /\ failures' = failures + 1

\* This step is check_reminders deciding on the candidate at scanIdx.
ScanDecides ==
    /\ scanPc = "loop"
    /\ scanIdx <= Len(scanList)
    /\ restarts' = restarts
    /\ scanIdx' # scanIdx \/ scanPc' # "loop"

\* This step called bot.send_message, whatever came of it.
Dispatched == scanPc' = "delete" \/ failures' = failures + 1

\* This step is the second half of set_reminder in task t, with a zone
\* pytz knows.
ReminderDecides(t) ==
    /\ task[t].pc = "rem_commit"
    /\ task'[t].pc = "idle"
    /\ restarts' = restarts
    /\ ReminderTimezone(task[t].user) \in all_timezones

\* The instant set_reminder resolved in task t.
Resolved(t) == ToUtc(task[t].dt, ReminderTimezone(task[t].user))

\* C1: a send that fails in one cycle leaves check_reminders running, so
\* that the reminder is a candidate again in the next cycle.
C1_FailedSendIsRetried == [][SendFails => scanPc' # "terminated"]_vars

\* C2: nothing that happens in a cycle ends the scanner loop:
\* check_reminders is never left by an exception.
C2_ScannerNeverTerminates == scanPc # "terminated"

\* C3: every reminder that was created is still in the table or has been
\* sent at least once.
C3_StoredOrSent == \A k \in 1..created : InStore(k) \/ sentCount[k] >= 1

\* C3 witness: a reminder was sent and then deleted, across a failed store
\* call or a restart.
C3_Witness ==
    /\ \E k \in 1..created : ~InStore(k) /\ sentCount[k] >= 1
    /\ failures + restarts >= 1

\* C4: when a cycle is through, every reminder that was in the table when
\* the cycle fetched and whose dueAt the cycle's now has reached has been
\* sent.
C4_DueReminderIsSent ==
    scanPc = "sleep" =>
        \A r \in reminders :
            (r.key \in fetchKeys /\ DueAt(r) <= scanNow) => sentCount[r.key] >= 1

\* C5: in a cycle the scanner dispatches a candidate if and only if its
\* dueAt, cut to the minute, is at or before the cycle's now.
C5_DispatchedIffDue ==
    [][ScanDecides =>
         (Dispatched <=> TruncMin(DueAt(scanList[scanIdx])) <= scanNow)]_vars

\* C6: without a failed call and without a restart no reminder is sent
\* twice, and every notification goes to the owner of a reminder that is in
\* the table, with that reminder's text.
C6_ExactlyOnceToOwner ==
    /\ (failures = 0 /\ restarts = 0) => \A k \in 1..MaxReminders : sentCount[k] <= 1
    /\ sent # NoSent =>
         \E r \in reminders :
             r.key = sent.key /\ r.user_id = sent.to /\ r.reminder_text = sent.text

\* C6 witness: a reminder was sent once and deleted, and a later cycle has
\* fetched, with no failure and no restart.
C6_Witness ==
    /\ failures = 0 /\ restarts = 0
    /\ sentCount[1] = 1 /\ ~InStore(1)
    /\ scanPc = "loop" /\ fetchKeys = {}

\* C7: set_reminder with a resolved instant strictly before now (cut to the
\* minute) answers with the past-time error and writes nothing, in neither
\* of its two steps.
C7_PastIsRejected ==
    [][\A t \in Tasks :
         /\ (ReminderDecides(t) /\ Resolved(t) < TruncMin(Now))
                => (out'.reply = "past" /\ reminders' = reminders /\ users' = users)
         /\ (task[t].pc = "idle" /\ task'[t].pc = "rem_commit")
                => (reminders' = reminders /\ users' = users)]_vars

\* C7 witness: set_reminder has just answered with the past-time error.
C7_Witness == out.reply = "past"

C9_IncompleteIsRejected ==
    out.incomplete => out.reply \in {"usage", "strptime", "empty_text"}

\* C10: every row of reminders has a non-empty text.
C10_TextNonEmpty == \A r \in reminders : r.reminder_text # <<>>

\* The zone of a users row, or the default where there is no row: the zone
\* a command of user u is read in.
ZoneOf(u) == IF users[u] # NoRow THEN users[u].timezone ELSE DEFAULT_TZ

\* C11: whether the scanner dispatches a candidate does not depend on the
\* zone its owner has at scan time: the decision taken is the one the
\* stored time and the cycle's now give under every zone.
C11_DueIndependentOfZone ==
    [][(ScanDecides /\ ZoneOf(scanList[scanIdx].user_id) \in all_timezones) =>
         \A tz \in all_timezones :
             Dispatched <=> DueCheck(scanList[scanIdx].reminder_time, tz, scanNow)]_vars

\* C11 witness: a reminder stored when its owner was on Moscow time has
\* just been sent with the owner on UTC.
C11_Witness ==
    /\ sent # NoSent
    /\ users[sent.to].timezone = <<"UTC">>
    /\ \E r \in reminders :
         /\ r.key = sent.key
         /\ r.reminder_time =
                ToUtc(ParseDate(<<"15.10.2024">>) + ParseTime(<<"18:30">>),
                      <<"Europe/Moscow">>)

\* This step is the SELECT of set_timezone in task t.
TimezoneReads(t) == task[t].pc = "idle" /\ task'[t].pc = "tz_commit"

\* This step is the second half of set_timezone in task t.
TimezoneDecides(t) ==
    /\ task[t].pc = "tz_commit"
    /\ task'[t].pc = "idle"
    /\ restarts' = restarts

\* C12: set_timezone leaves the reminders as they are and touches no row
\* of users but the caller's; with a missing or unknown zone it leaves the
\* users as they are, too.
C12_TimezoneFrame ==
    [][/\ out'.reply \in {"tz_usage", "bad_timezone"}
            => (users' = users /\ reminders' = reminders)
       /\ \A t \in Tasks :
            /\ TimezoneReads(t) => (users' = users /\ reminders' = reminders)
            /\ TimezoneDecides(t) =>
                 /\ reminders' = reminders
                 /\ \A u \in UserIds \ {task[t].uid} : users'[u] = users[u]
                 /\ task[t].arg \notin all_timezones => users' = users]_vars

\* C12 witness: set_timezone has just refused an unknown zone while a
\* reminder is stored.
C12_Witness == out.reply = "bad_timezone" /\ reminders # {}

\* C13: the timezone of every row of users is a zone pytz knows.
C13_ZonesAreKnown ==
    \A u \in UserIds : users[u] # NoRow => users[u].timezone \in all_timezones

\* This step is the second half of start_handler in task t.
StartDecides(t) ==
    /\ task[t].pc = "start_commit"
    /\ task'[t].pc = "idle"
    /\ restarts' = restarts

\* C14: start_handler for a user without a row stores one row for that
\* user, with DEFAULT_TZ as its timezone, and writes nothing else.
C14_StartStoresDefault ==
    [][\A t \in Tasks :
         (StartDecides(t) /\ users[task[t].uid] = NoRow) =>
             /\ users'[task[t].uid] # NoRow
             /\ users'[task[t].uid].timezone = DEFAULT_TZ
             /\ \A u \in UserIds \ {task[t].uid} : users'[u] = users[u]
             /\ reminders' = reminders]_vars

BatchText == <<"x">>

BatchInit ==
    /\ variant \in {"bot", "g"}
    /\ DEFAULT_TZ = <<"Europe/Moscow">>
    /\ hostOffset \in HostOffsets
    /\ clock = 1
    /\ users \in {us \in [UserIds -> {NoRow} \cup
                                     {UserRow(FirstName(u), <<"Europe/Moscow">>) :
                                          u \in UserIds}] :
                      \A u \in UserIds :
                          us[u] # NoRow => us[u].username = FirstName(u)}
    /\ reminders =
           {ReminderRow(u, u, BatchText,
                        ToColumn(ToUtc(ParseDate(<<"15.10.2024">>) + ParseTime(<<"18:30">>),
                                       <<"Europe/Moscow">>)), u) : u \in UserIds}
    /\ task = [t \in Tasks |-> IdleTask]
    /\ out = NoOut
    /\ scanPc = "top"
    /\ scanNow = 0
    /\ scanList = <<>>
    /\ scanIdx = 1
    /\ fetchKeys = {}
    /\ sent = NoSent
    /\ created = Cardinality(UserIds)
    /\ sentCount = [k \in UserIds |-> 0]
    /\ failures = 0
    /\ restarts = 0

BatchNext ==
    \/ Tick
    \/ \E t \in Serving, u \in UserIds : StartSelect(t, u)
    \/ \E t \in Serving : StartCommit(t)
    \/ \E t \in Serving, u \in UserIds : TimezoneSelect(t, u)
    \/ \E t \in Serving : TimezoneCommit(t)
    \/ ScanFetch
    \/ ScanSend
    \/ ScanDelete
    \/ ScanSleep
    \/ ScanWake
    \/ Restart

BatchSpec == BatchInit /\ [][BatchNext]_vars

\* Candidate i of the cycle is due by the test of check_reminders.
CandidateDue(i) ==
    /\ ZoneOf(scanList[i].user_id) \in all_timezones
    /\ DueCheck(scanList[i].reminder_time, ZoneOf(scanList[i].user_id), scanNow)

\* C16: a send that fails for one candidate leaves the cycle running: the
\* for loop goes on to the candidates behind it, which are due as well.
C16_FailedSendDoesNotStopBatch ==
    [][(SendFails /\ \E i \in (scanIdx + 1)..Len(scanList) : CandidateDue(i))
          => (scanPc' = "loop" /\ scanIdx' = scanIdx + 1)]_vars

\* A reminder whose owner has no row of users.
Orphan(r) == users[r.user_id] = NoRow

\* C17: a reminder without an owner's row never fails a cycle: every
\* candidate the for loop comes to has its owner's row, and no step sends or
\* deletes a reminder without one.
C17_OrphanIsSkipped ==
    [][/\ (scanPc = "loop" /\ scanIdx <= Len(scanList))
            => ~Orphan(scanList[scanIdx])
       /\ \A r \in reminders :
            Orphan(r) => (r \in reminders' /\ sentCount'[r.key] = sentCount[r.key])]_vars

\* C17 witness: a cycle is through in which the reminder of a user without
\* a row was left where it is, and the other reminder was sent and deleted.
C17_Witness ==
    /\ scanPc = "sleep"
    /\ failures = 0 /\ restarts = 0
    /\ \E r \in reminders : Orphan(r) /\ r.key \in fetchKeys /\ sentCount[r.key] = 0
    /\ \E k \in fetchKeys : ~InStore(k) /\ sentCount[k] = 1

\* ------------------------------------------------- two handlers at a time
\* /start and /set_timezone served by both handler tasks, so that two
\* commands overlap at their awaits, beside the scanner on a table without
\* reminders.
RaceNext ==
    \/ Tick
    \/ \E t \in Tasks, u \in UserIds : StartSelect(t, u)
    \/ \E t \in Tasks : StartCommit(t)
    \/ \E t \in Tasks, u \in UserIds : TimezoneSelect(t, u)
    \/ \E t \in Tasks : TimezoneCommit(t)
    \/ ScanFetch
    \/ ScanSleep
    \/ ScanWake
    \/ Restart

\* No reminder is stored or read, so one host zone stands for all.
RaceInit == Init /\ hostOffset = 0

RaceSpec == RaceInit /\ [][RaceNext]_vars

\* The handler in task t found no row for its user and is about to INSERT
\* one.
Inserts(t) ==
    \/ task[t].pc = "start_commit"
    \/ task[t].pc = "tz_commit" /\ task[t].user = NoRow

\* The username of the row it inserts.
InsertName(t) ==
    IF task[t].pc = "start_commit" THEN FirstName(task[t].uid)
    ELSE Username(task[t].uid)

\* C18: a handler that found no row for its user and inserts one, with a
\* username Telegram gave, ends with its reply and with the row in the
\* table, whatever another handler did in between.
C18_ConcurrentInsertsSucceed ==
    [][\A t \in Tasks :
         (/\ Inserts(t)
          /\ InsertName(t) # NoName
          /\ task'[t].pc = "idle"
          /\ restarts' = restarts)
             => (out'.reply \notin Unhandled /\ users'[task[t].uid] # NoRow)]_vars

\* C19: a row of users that exists changes only in the step in which
\* set_timezone of its user commits and confirms: no start_handler, scan
\* cycle or restart changes it.
C19_OnlySetTimezoneChangesRow ==
    [][\A u \in UserIds :
         (users[u] # NoRow /\ users'[u] # users[u]) =>
             \E t \in Tasks :
                 TimezoneDecides(t) /\ task[t].uid = u /\ out'.reply = "tz_set"]_vars

\* C19 witness: start_handler has just greeted user 1, whose row holds a
\* zone set_timezone stored, and has left it there.
C19_Witness ==
    /\ out.reply = "greeting"
    /\ users[2] = NoRow
    /\ users[1] # NoRow
    /\ users[1].timezone # StartTimezone

====
